---- MODULE Spec2Model ----
(***************************************************************************)
(* PDR AI sidecar: a FastAPI host that constructs three model wrappers    *)
(* (Embedder, Reranker, EntityExtractor) in its lifespan and then serves  *)
(* /health, /embed, /rerank and /extract-entities.                        *)
(*                                                                         *)
(* Strings are sequences of one-character strings.  The three ML models   *)
(* are external: what a model call returns (or that it raises) is an      *)
(* input of the action that makes the call.                               *)
(*                                                                         *)
(* Two specifications:                                                     *)
(*   Spec     the host: lifespan, then the four request handlers;         *)
(*   SpecNer  EntityExtractor.extract alone, applied to bounded inputs.   *)
(***************************************************************************)
EXTENDS Integers, Sequences, FiniteSets

VARIABLES
    pc,           \* position of lifespan(): which statement runs next
    app_state,    \* app.state: the three model handles
    last,         \* the exchange in progress: request, response and the calls made for it
    ner_pc,       \* SpecNer: "idle" | "call" | "done"
    ner_texts,    \* SpecNer: argument `texts` of EntityExtractor.extract
    ner_outs,     \* SpecNer: what self.pipe returns for each chunk
    ner_ret       \* SpecNer: what EntityExtractor.extract returned

vars == <<pc, app_state, last, ner_pc, ner_texts, ner_outs, ner_ret>>

(***************************************************************************)
(* Bounds of the model                                                     *)
(***************************************************************************)
MaxWordLen == 4      \* longest raw span word enumerated exhaustively
MaxSpans == 3        \* most raw spans the NER model returns for one chunk
ChunkSlack == 2      \* chunk lengths range over 2048 - ChunkSlack .. 2048 + ChunkSlack
MaxTexts == 2        \* most texts in one /embed request
MaxDocs == 3         \* most documents in one /rerank request
MaxChunks == 2       \* most chunks in one /extract-entities request

(***************************************************************************)
(* Program constants                                                       *)
(***************************************************************************)
MaxChars == 2048     \* text[:2048]
MinLength == 1       \* Field(..., min_length=1)
MinWordLen == 2      \* len(word) < 2
ScoreDigits == 4     \* round(float(ent["score"]), 4)

(***************************************************************************)
(* Helpers on sequences                                                    *)
(***************************************************************************)
Range(s) == {s[i] : i \in DOMAIN s}

SeqsUpTo(S, n) == UNION {[1..k -> S] : k \in 0..n}

Reverse(s) == [i \in 1..Len(s) |-> s[Len(s) + 1 - i]]

(***************************************************************************)
(* Python string operations used by EntityExtractor.extract                *)
(***************************************************************************)
Alphabet == {"a", "A", "#", " ", "|"}

Whitespace == {" "}

\* str.lower() on one character of Alphabet
LowerChar(c) == IF c = "A" THEN "a" ELSE c

\* str.lower()
Lower(s) == [i \in 1..Len(s) |-> LowerChar(s[i])]

RECURSIVE LStrip(_)
LStrip(s) ==
    IF s # <<>> /\ s[1] \in Whitespace THEN LStrip(Tail(s)) ELSE s

RECURSIVE RStrip(_)
RStrip(s) ==
    IF s # <<>> /\ s[Len(s)] \in Whitespace
    THEN RStrip(SubSeq(s, 1, Len(s) - 1))
    ELSE s

\* str.strip()
Strip(s) == RStrip(LStrip(s))

\* re.sub(r"^##", "", word): one match, anchored at the start of the string
ReSubLeadingHashes(s) ==
    IF Len(s) >= 2 /\ s[1] = "#" /\ s[2] = "#"
    THEN SubSeq(s, 3, Len(s))
    ELSE s

\* word = ent["word"].strip(); word = re.sub(r"^##", "", word).strip()
CleanWord(w) == Strip(ReSubLeadingHashes(Strip(w)))

\* a key that keeps the case of the word
KeyKeepCase(word, label) == word \o <<"|">> \o label

\* key = f"{word.lower()}|{ent['entity_group']}"
Key(word, label) == Lower(word) \o <<"|">> \o label

\* 10 ^ n
RECURSIVE Pow10(_)
Pow10(n) == IF n = 0 THEN 1 ELSE 10 * Pow10(n - 1)

\* round(float(score), 4).  Scores are integers in units of 10^-5; the inputs
\* of the model never lie halfway between two multiples of 10^-4, where the
\* result of Python's round depends on the binary representation.
Round4(score) ==
    LET unit == Pow10(5 - ScoreDigits)
    IN ((score + unit \div 2) \div unit) * unit

\* no truncation at all
TruncateNone(text) == text

\* truncated = text[:2048]
Truncate(text) ==
    IF Len(text) <= MaxChars THEN text ELSE SubSeq(text, 1, MaxChars)

(***************************************************************************)
(* EntityExtractor.extract                                                 *)
(***************************************************************************)
\* the body of `for ent in raw`, from span i on
RECURSIVE ScanSpans(_, _, _, _)
ScanSpans(raw, i, entities, seen) ==
    IF i > Len(raw) THEN entities
    ELSE LET ent == raw[i]
             word == CleanWord(ent.word)
             key == Key(word, ent.entity_group)
         IN IF word = <<>> \/ Len(word) < MinWordLen
            THEN ScanSpans(raw, i + 1, entities, seen)
            ELSE IF key \in seen
            THEN ScanSpans(raw, i + 1, entities, seen)
            ELSE ScanSpans(raw, i + 1,
                           Append(entities,
                                  [text |-> word,
                                   label |-> ent.entity_group,
                                   score |-> Round4(ent.score)]),
                           seen \cup {key})

\* the entities of one chunk: entities = [], seen = set(), then the loop
ChunkEntities(raw) == ScanSpans(raw, 1, <<>>, {})

\* the body of `for text in texts`, from chunk i on.  outs[i] is what
\* self.pipe(truncated) returns for chunk i; fail = i means that call raises.
RECURSIVE ExtractLoop(_, _, _, _, _, _)
ExtractLoop(texts, outs, fail, i, results, calls) ==
    IF i > Len(texts)
    THEN [raised |-> FALSE, value |-> results, model_calls |-> calls]
    ELSE LET truncated == Truncate(texts[i])
             called == Append(calls, truncated)
         IN IF fail = i
            THEN [raised |-> TRUE, value |-> <<>>, model_calls |-> called]
            ELSE ExtractLoop(texts, outs, fail, i + 1,
                             Append(results,
                                    [text |-> truncated,
                                     entities |-> ChunkEntities(outs[i])]),
                             called)

\* a loop that skips a chunk whose inference raises and goes on
RECURSIVE ExtractLoopSkip(_, _, _, _, _, _)
ExtractLoopSkip(texts, outs, fail, i, results, calls) ==
    IF i > Len(texts)
    THEN [raised |-> FALSE, value |-> results, model_calls |-> calls]
    ELSE LET truncated == Truncate(texts[i])
             called == Append(calls, truncated)
         IN IF fail = i
            THEN ExtractLoopSkip(texts, outs, 0, i + 1, results, called)
            ELSE ExtractLoopSkip(texts, outs, fail, i + 1,
                                 Append(results,
                                        [text |-> truncated,
                                         entities |-> ChunkEntities(outs[i])]),
                                 called)

EntityExtractor_extract_skip(texts, outs, fail) ==
    ExtractLoopSkip(texts, outs, fail, 1, <<>>, <<>>)

EntityExtractor_extract(texts, outs, fail) ==
    ExtractLoop(texts, outs, fail, 1, <<>>, <<>>)

(***************************************************************************)
(* Embedder.embed and Reranker.rerank                                      *)
(***************************************************************************)
\* an outcome of a model call: it raises, or it returns `value`
Raises == [raised |-> TRUE, value |-> <<>>]

Returns(v) == [raised |-> FALSE, value |-> v]

\* embed that returns the vectors in reverse order
Embedder_embed_reversed(texts, out) ==
    IF out.raised
    THEN [raised |-> TRUE, value |-> <<>>, model_calls |-> <<texts>>]
    ELSE [raised |-> FALSE,
          value |-> Reverse([i \in 1..Len(texts) |-> out.value[texts[i]]]),
          model_calls |-> <<texts>>]

\* embeddings = self.model.encode(texts, ...); return embeddings.tolist()
\* out is the outcome of encode: it raises, or it maps each text to its vector
Embedder_embed(texts, out) ==
    IF out.raised
    THEN [raised |-> TRUE, value |-> <<>>, model_calls |-> <<texts>>]
    ELSE [raised |-> FALSE,
          value |-> [i \in 1..Len(texts) |-> out.value[texts[i]]],
          model_calls |-> <<texts>>]

\* pairs = [(query, doc) for doc in documents]
Pairs(query, documents) == [i \in 1..Len(documents) |-> <<query, documents[i]>>]

\* rerank that returns the scores in reverse order
Reranker_rerank_reversed(query, documents, out) ==
    IF documents = <<>>
    THEN [raised |-> FALSE, value |-> <<>>, model_calls |-> <<>>]
    ELSE LET pairs == Pairs(query, documents)
         IN IF out.raised
            THEN [raised |-> TRUE, value |-> <<>>, model_calls |-> <<pairs>>]
            ELSE [raised |-> FALSE,
                  value |-> Reverse([i \in 1..Len(pairs) |-> out.value[pairs[i]]]),
                  model_calls |-> <<pairs>>]

\* if not documents: return []; scores = self.model.predict(pairs, ...)
\* out is the outcome of predict: it raises, or it maps each pair to its score
Reranker_rerank(query, documents, out) ==
    IF documents = <<>>
    THEN [raised |-> FALSE, value |-> <<>>, model_calls |-> <<>>]
    ELSE LET pairs == Pairs(query, documents)
         IN IF out.raised
            THEN [raised |-> TRUE, value |-> <<>>, model_calls |-> <<pairs>>]
            ELSE [raised |-> FALSE,
                  value |-> [i \in 1..Len(pairs) |-> out.value[pairs[i]]],
                  model_calls |-> <<pairs>>]

(***************************************************************************)
(* Request validation (pydantic Field constraints)                         *)
(***************************************************************************)
\* texts: list[str] = Field(..., min_length=1)
ValidEmbedRequest(texts) == Len(texts) >= MinLength

\* a request model that constrains the query only
ValidRerankRequestQueryOnly(query, documents) == Len(query) >= MinLength

\* query: str = Field(..., min_length=1); documents: list[str] = Field(..., min_length=1)
ValidRerankRequest(query, documents) ==
    Len(query) >= MinLength /\ Len(documents) >= MinLength

\* chunks: list[str] = Field(..., min_length=1)
ValidExtractEntitiesRequest(chunks) == Len(chunks) >= MinLength

(***************************************************************************)
(* Responses                                                               *)
(***************************************************************************)
NoModel == [loaded |-> FALSE]

NoRequest ==
    [endpoint |-> "none", request |-> <<>>, outcome |-> <<>>, status |-> 0,
     body |-> [detail |-> "none"], wrapper_calls |-> <<>>, model_calls |-> <<>>]

\* 422: the request never reaches the handler
Rejected(endpoint, request) ==
    [endpoint |-> endpoint, request |-> request, outcome |-> <<>>, status |-> 422,
     body |-> [detail |-> "validation"], wrapper_calls |-> <<>>,
     model_calls |-> <<>>]

\* 500: the exception of the model call leaves the handler
ServerError(endpoint, request, outcome, wrapper, ret) ==
    [endpoint |-> endpoint, request |-> request, outcome |-> outcome,
     status |-> 500, body |-> [detail |-> "Internal Server Error"],
     wrapper_calls |-> <<wrapper>>, model_calls |-> ret.model_calls]

Ok(endpoint, request, outcome, wrapper, ret, body) ==
    [endpoint |-> endpoint, request |-> request, outcome |-> outcome,
     status |-> 200, body |-> body,
     wrapper_calls |-> <<wrapper>>, model_calls |-> ret.model_calls]

\* EmbedResponse(embeddings=vectors, dimension=embedder.dimension, count=len(vectors))
EmbedResponse(texts, out) ==
    LET embedder == app_state.embedder
        ret == Embedder_embed(texts, out)
        request == [texts |-> texts]
    IN IF ret.raised
       THEN ServerError("embed", request, out, "Embedder.embed", ret)
       ELSE Ok("embed", request, out, "Embedder.embed", ret,
               [embeddings |-> ret.value,
                dimension |-> embedder.dimension,
                count |-> Len(ret.value)])

\* RerankResponse(scores=scores, count=len(scores))
RerankResponse(query, documents, out) ==
    LET ret == Reranker_rerank(query, documents, out)
        request == [query |-> query, documents |-> documents]
    IN IF ret.raised
       THEN ServerError("rerank", request, out, "Reranker.rerank", ret)
       ELSE Ok("rerank", request, out, "Reranker.rerank", ret,
               [scores |-> ret.value, count |-> Len(ret.value)])

\* a total that is assigned, not accumulated: the last chunk's count
TotalEntitiesLast(raw_results) ==
    IF raw_results = <<>> THEN 0
    ELSE Len(raw_results[Len(raw_results)].entities)

\* total = 0; for item in raw_results: total += len(entities)
RECURSIVE TotalEntities(_)
TotalEntities(raw_results) ==
    IF raw_results = <<>> THEN 0
    ELSE Len(Head(raw_results).entities) + TotalEntities(Tail(raw_results))

\* ExtractEntitiesResponse(results=results, total_entities=total)
ExtractEntitiesResponse(chunks, outs, fail) ==
    LET ret == EntityExtractor_extract(chunks, outs, fail)
        request == [chunks |-> chunks]
        outcome == [outs |-> outs, fail |-> fail]
    IN IF ret.raised
       THEN ServerError("extract-entities", request, outcome,
                        "EntityExtractor.extract", ret)
       ELSE Ok("extract-entities", request, outcome,
               "EntityExtractor.extract", ret,
               [results |-> [i \in 1..Len(ret.value) |->
                                [text |-> ret.value[i].text,
                                 entities |-> ret.value[i].entities]],
                total_entities |-> TotalEntities(ret.value)])

(***************************************************************************)
(* Inputs of the host specification                                        *)
(***************************************************************************)
\* get_sentence_embedding_dimension() of the configured embedding model
Dimensions == {1, 2}

\* components of an embedding vector
Floats == {0, 1}

Vectors(d) == [1..d -> Floats]

EmbedTexts == {<<"a">>, <<"b", "a">>}

Queries == {<<>>, <<"q">>}

Documents == {<<"x">>, <<"y", "x">>}

\* relevance scores of the cross-encoder
Scores == {-1, 3}

ChunkTexts == {<<"a", "a">>, <<"b">>}

\* entity_group values of the configured NER model
Labels == {<<"P">>, <<"|", "P">>}

\* score of the span at position i of a raw output, in units of 10^-5
PosScore(i) == 99996 - 1112 * i

Span(w, l, i) == [word |-> w, entity_group |-> l, score |-> PosScore(i)]

\* raw outputs of the NER pipeline offered to the host's handler
RawOutputs ==
    { <<>>,
      <<Span(<<"a", "a">>, <<"P">>, 1)>>,
      <<Span(<<"A", "a">>, <<"P">>, 1), Span(<<"#", "#", "a", "a">>, <<"P">>, 2),
        Span(<<"a">>, <<"P">>, 3), Span(<<"a", "a">>, <<"|", "P">>, 4)>> }

\* outcomes of model.encode(texts): it raises, or returns one vector per text,
\* the same vector for the same text
EncodeOutcomes(texts, d) ==
    {Raises} \cup {Returns(f) : f \in [Range(texts) -> Vectors(d)]}

\* outcomes of model.predict(pairs): it raises, or returns one score per pair,
\* the same score for the same pair
PredictOutcomes(query, documents) ==
    {Raises} \cup {Returns(f) : f \in [Range(Pairs(query, documents)) -> Scores]}

(***************************************************************************)
(* lifespan: the three constructors, then yield                            *)
(***************************************************************************)
AllConstructed ==
    /\ app_state.embedder # NoModel
    /\ app_state.reranker # NoModel
    /\ app_state.entity_extractor # NoModel

UnchangedNer == UNCHANGED <<ner_pc, ner_texts, ner_outs, ner_ret>>

\* app.state.embedder = Embedder(); a constructor that raises ends the startup
LoadEmbedder ==
    /\ pc = "embedder"
    /\ \/ \E d \in Dimensions :
            /\ app_state' = [app_state EXCEPT
                                !.embedder = [loaded |-> TRUE, dimension |-> d]]
            /\ pc' = "reranker"
       \/ /\ pc' = "failed"
          /\ UNCHANGED app_state
    /\ UNCHANGED last
    /\ UnchangedNer

\* a lifespan that goes on when Reranker() raises
LoadRerankerSwallow ==
    /\ pc = "reranker"
    /\ \/ /\ app_state' = [app_state EXCEPT !.reranker = [loaded |-> TRUE]]
          /\ pc' = "entity_extractor"
       \/ /\ pc' = "entity_extractor"
          /\ UNCHANGED app_state
    /\ UNCHANGED last
    /\ UnchangedNer

\* app.state.reranker = Reranker()
LoadReranker ==
    /\ pc = "reranker"
    /\ \/ /\ app_state' = [app_state EXCEPT !.reranker = [loaded |-> TRUE]]
          /\ pc' = "entity_extractor"
       \/ /\ pc' = "failed"
          /\ UNCHANGED app_state
    /\ UNCHANGED last
    /\ UnchangedNer

\* app.state.entity_extractor = EntityExtractor()
LoadEntityExtractor ==
    /\ pc = "entity_extractor"
    /\ \/ /\ app_state' = [app_state EXCEPT !.entity_extractor = [loaded |-> TRUE]]
          /\ pc' = "yield"
       \/ /\ pc' = "failed"
          /\ UNCHANGED app_state
    /\ UNCHANGED last
    /\ UnchangedNer

\* print("[Sidecar] Models loaded"); yield: the server starts to accept requests
LifespanYield ==
    /\ pc = "yield"
    /\ pc' = "serving"
    /\ UNCHANGED <<app_state, last>>
    /\ UnchangedNer

\* after the yield: print("[Sidecar] Shutting down.")
Shutdown ==
    /\ pc = "serving"
    /\ pc' = "stopped"
    /\ UNCHANGED <<app_state, last>>
    /\ UnchangedNer

(***************************************************************************)
(* Request handlers: each runs from validation to response in one step     *)
(* (the handlers are coroutines with no await in them, so the event loop   *)
(* runs one at a time); `last` holds the exchange until the response has   *)
(* gone out.                                                               *)
(***************************************************************************)
\* no exchange is in progress
Idle == last.endpoint = "none"

\* the response of the handler has been sent to the client
respond ==
    /\ ~Idle
    /\ last' = NoRequest
    /\ UNCHANGED <<pc, app_state>>
    /\ UnchangedNer

\* GET /health
health ==
    /\ pc = "serving"
    /\ Idle
    /\ last' = [NoRequest EXCEPT !.endpoint = "health", !.status = 200,
                                 !.body = [status |-> "ok"]]
    /\ UNCHANGED <<pc, app_state>>
    /\ UnchangedNer

\* POST /embed
embed ==
    /\ pc = "serving"
    /\ Idle
    /\ \E texts \in SeqsUpTo(EmbedTexts, MaxTexts) :
          \/ /\ ~ValidEmbedRequest(texts)
             /\ last' = Rejected("embed", [texts |-> texts])
          \/ /\ ValidEmbedRequest(texts)
             /\ \E out \in EncodeOutcomes(texts, app_state.embedder.dimension) :
                   last' = EmbedResponse(texts, out)
    /\ UNCHANGED <<pc, app_state>>
    /\ UnchangedNer

\* POST /rerank
rerank ==
    /\ pc = "serving"
    /\ Idle
    /\ \E query \in Queries, documents \in SeqsUpTo(Documents, MaxDocs) :
          \/ /\ ~ValidRerankRequest(query, documents)
             /\ last' = Rejected("rerank", [query |-> query, documents |-> documents])
          \/ /\ ValidRerankRequest(query, documents)
             /\ \E out \in PredictOutcomes(query, documents) :
                   last' = RerankResponse(query, documents, out)
    /\ UNCHANGED <<pc, app_state>>
    /\ UnchangedNer

\* POST /extract-entities
extract_entities ==
    /\ pc = "serving"
    /\ Idle
    /\ \E chunks \in SeqsUpTo(ChunkTexts, MaxChunks) :
          \/ /\ ~ValidExtractEntitiesRequest(chunks)
             /\ last' = Rejected("extract-entities", [chunks |-> chunks])
          \/ /\ ValidExtractEntitiesRequest(chunks)
             /\ \E outs \in [1..Len(chunks) -> RawOutputs], fail \in 0..Len(chunks) :
                   last' = ExtractEntitiesResponse(chunks, outs, fail)
    /\ UNCHANGED <<pc, app_state>>
    /\ UnchangedNer

Init ==
    /\ pc = "embedder"
    /\ app_state = [embedder |-> NoModel, reranker |-> NoModel,
                    entity_extractor |-> NoModel]
    /\ last = NoRequest
    /\ ner_pc = "idle"
    /\ ner_texts = <<>>
    /\ ner_outs = <<>>
    /\ ner_ret = [raised |-> FALSE, value |-> <<>>, model_calls |-> <<>>]

Next ==
    \/ LoadEmbedder
    \/ LoadReranker
    \/ LoadEntityExtractor
    \/ LifespanYield
    \/ Shutdown
    \/ health
    \/ embed
    \/ rerank
    \/ extract_entities
    \/ respond

Spec == Init /\ [][Next]_vars

(***************************************************************************)
(* SpecNer: EntityExtractor.extract applied to bounded inputs               *)
(***************************************************************************)
\* words of the raw spans in outputs of several spans
SpanWords ==
    { <<>>, <<"a">>, <<"a", "a">>, <<"A", "a">>, <<"a", "a", "|">>,
      <<" ", "a", "a">>, <<"#", "#", "a", "a">>, <<"#", "#", "a">>, <<"|", "|">> }

\* the raw output whose i-th span has the word and label f[i]
RawOf(f) == [i \in 1..Len(f) |-> Span(f[i][1], f[i][2], i)]

ShortText == <<"a", "a">>

Pattern == <<"a", "b", "c">>

\* a chunk of n characters whose content depends on the position
PatternText(n, k) == [i \in 1..n |-> Pattern[((i + k) % 3) + 1]]

NerIdle ==
    /\ pc = "detached"
    /\ app_state = [embedder |-> NoModel, reranker |-> NoModel,
                    entity_extractor |-> [loaded |-> TRUE]]
    /\ last = NoRequest
    /\ ner_pc = "call"
    /\ ner_ret = [raised |-> FALSE, value |-> <<>>, model_calls |-> <<>>]

InitNer ==
    /\ NerIdle
    /\ \/ \* one chunk, every raw output of up to MaxSpans spans
          \E k \in 0..MaxSpans : \E f \in [1..k -> SpanWords \X Labels] :
             /\ ner_texts = <<ShortText>>
             /\ ner_outs = <<RawOf(f)>>
       \/ \* one chunk, one span, every word of up to MaxWordLen characters
          \E k \in 0..MaxWordLen : \E w \in [1..k -> Alphabet] :
             /\ ner_texts = <<ShortText>>
             /\ ner_outs = << <<Span(w, <<"P">>, 1)>> >>
       \/ \* one chunk of about 2048 characters
          \E n \in (MaxChars - ChunkSlack)..(MaxChars + ChunkSlack), k \in 0..2 :
             /\ ner_texts = <<PatternText(n, k)>>
             /\ ner_outs = << <<Span(<<"a", "a">>, <<"P">>, 1)>> >>
       \/ \* two chunks, one span each
          \E x \in SpanWords \X Labels, y \in SpanWords \X Labels :
             /\ ner_texts = <<ShortText, ShortText>>
             /\ ner_outs = << <<Span(x[1], x[2], 1)>>, <<Span(y[1], y[2], 1)>> >>

\* extractor.extract(texts), no model call raising
NerCall ==
    /\ ner_pc = "call"
    /\ ner_ret' = EntityExtractor_extract(ner_texts, ner_outs, 0)
    /\ ner_pc' = "done"
    /\ UNCHANGED <<pc, app_state, last, ner_texts, ner_outs>>

NextNer == NerCall

SpecNer == InitNer /\ [][NextNer]_vars

(***************************************************************************)
(* Properties of EntityExtractor.extract (under SpecNer)                    *)
(***************************************************************************)
StartsWithMarker(s) == Len(s) >= 2 /\ s[1] = "#" /\ s[2] = "#"

SamePair(e1, e2) == Lower(e1.text) = Lower(e2.text) /\ e1.label = e2.label

\* C1: in every chunk's returned entity list, no two entities have the same
\* pair (lower-cased text, label), whatever raw spans the model returned.
C1_NoDuplicatePair ==
    ner_pc = "done" =>
        \A c \in 1..Len(ner_ret.value) :
            LET entities == ner_ret.value[c].entities
            IN \A i, j \in 1..Len(entities) :
                  i < j => ~SamePair(entities[i], entities[j])

\* C1 witness: the model returned two spans that differ in case only, with the
\* same label, and one entity came back for them.
C1_Witness ==
    /\ ner_pc = "done"
    /\ Len(ner_texts) = 1
    /\ Len(ner_outs[1]) = 2
    /\ ner_outs[1][1].word = <<"A", "a">>
    /\ ner_outs[1][2].word = <<"a", "a">>
    /\ ner_outs[1][1].entity_group = ner_outs[1][2].entity_group
    /\ Len(ner_ret.value[1].entities) = 1
    /\ ner_ret.value[1].entities[1].text = <<"A", "a">>

\* the first 2048 characters of a text, the whole text when it is no longer
First2048(t) == IF Len(t) <= 2048 THEN t ELSE [j \in 1..2048 |-> t[j]]

\* C4: for every chunk, the text given to the NER model and the text echoed in
\* the result are both the first 2048 characters of the chunk, so the echoed
\* text is at most 2048 characters long.
C4_TruncatedBeforeInferenceAndEcho ==
    ner_pc = "done" =>
        /\ Len(ner_ret.value) = Len(ner_texts)
        /\ Len(ner_ret.model_calls) = Len(ner_texts)
        /\ \A c \in 1..Len(ner_texts) :
              /\ ner_ret.model_calls[c] = First2048(ner_texts[c])
              /\ ner_ret.value[c].text = First2048(ner_texts[c])
              /\ Len(ner_ret.value[c].text) <= 2048

\* C4 witness: a chunk of more than 2048 characters was extracted and its
\* echoed text is 2048 characters long and differs from the chunk.
C4_Witness ==
    /\ ner_pc = "done"
    /\ Len(ner_texts[1]) > 2048
    /\ Len(ner_ret.value[1].text) = 2048
    /\ ner_ret.model_calls[1] # ner_texts[1]

\* the pair a raw span is de-duplicated by
PairOf(ent) == <<Lower(CleanWord(ent.word)), ent.entity_group>>

\* the indices among 1..n of the raw spans the claim keeps: cleaned text of
\* length >= 2 and no earlier kept span with the same pair
RECURSIVE KeptUpTo(_, _)
KeptUpTo(raw, n) ==
    IF n = 0 THEN {}
    ELSE LET prev == KeptUpTo(raw, n - 1)
         IN IF /\ Len(CleanWord(raw[n].word)) >= 2
               /\ \A j \in prev : PairOf(raw[j]) # PairOf(raw[n])
            THEN prev \cup {n}
            ELSE prev

\* the spans at the indices of `kept`, in raw order, as (text, label)
RECURSIVE KeptSpans(_, _, _)
KeptSpans(raw, i, kept) ==
    IF i > Len(raw) THEN <<>>
    ELSE IF i \in kept
    THEN <<[text |-> CleanWord(raw[i].word), label |-> raw[i].entity_group]>>
         \o KeptSpans(raw, i + 1, kept)
    ELSE KeptSpans(raw, i + 1, kept)

TextAndLabel(entities) ==
    [i \in 1..Len(entities) |-> [text |-> entities[i].text, label |-> entities[i].label]]

\* C9: for each chunk the returned entities are exactly the raw spans, in raw
\* order, whose cleaned text has length >= 2 and whose pair (lower-cased
\* cleaned text, label) no earlier kept span of the chunk has.
C9_ExactlyFirstOccurrences ==
    ner_pc = "done" =>
        \A c \in 1..Len(ner_ret.value) :
            TextAndLabel(ner_ret.value[c].entities)
                = KeptSpans(ner_outs[c], 1, KeptUpTo(ner_outs[c], Len(ner_outs[c])))

\* C10: no returned entity text begins with "##", and none begins or ends
\* with whitespace.
C10_NoMarkerNoSurroundingSpace ==
    ner_pc = "done" =>
        \A c \in 1..Len(ner_ret.value) :
            \A i \in 1..Len(ner_ret.value[c].entities) :
                LET text == ner_ret.value[c].entities[i].text
                IN /\ ~StartsWithMarker(text)
                   /\ text # <<>>
                   /\ text[1] \notin Whitespace
                   /\ text[Len(text)] \notin Whitespace

(***************************************************************************)
(* Properties of the host (under Spec)                                     *)
(***************************************************************************)
IsRejection ==
    /\ last.status = 422
    /\ last.wrapper_calls = <<>>
    /\ last.model_calls = <<>>

\* C2: a request whose required field is empty (texts = [], query = "",
\* documents = [], chunks = []) is answered with a validation error and no
\* wrapper method and no model is invoked for it; /rerank never answers
\* documents = [] with an empty score list.
C2_EmptyFieldRejected ==
    /\ (last.endpoint = "embed" /\ last.request.texts = <<>>) => IsRejection
    /\ (last.endpoint = "rerank" /\ last.request.query = <<>>) => IsRejection
    /\ (last.endpoint = "rerank" /\ last.request.documents = <<>>) => IsRejection
    /\ (last.endpoint = "extract-entities" /\ last.request.chunks = <<>>)
          => IsRejection

\* C2 witness: /rerank was sent a query and documents = [] and answered 422.
C2_Witness ==
    /\ last.endpoint = "rerank"
    /\ last.request.query # <<>>
    /\ last.request.documents = <<>>
    /\ last.status = 422

Served == last.endpoint # "none"

\* C3: nothing is served before all three wrappers are constructed; the host
\* becomes ready only from the yield that follows the third constructor; once
\* a constructor has failed the host never becomes ready and serves nothing.
C3_ServedOnlyAfterConstruction ==
    /\ []((pc = "serving" \/ Served) => AllConstructed)
    /\ [](Served => pc \in {"serving", "stopped"})
    /\ [][(pc # "serving" /\ pc' = "serving") => (pc = "yield" /\ AllConstructed)]_vars
    /\ [][pc = "failed" => pc' = "failed"]_vars

\* C3 witness: the host is ready and /health answered {status: "ok"}.
C3_Witness ==
    /\ pc = "serving"
    /\ last.endpoint = "health"
    /\ last.status = 200
    /\ last.body.status = "ok"

RECURSIVE SumEntityCounts(_, _)
SumEntityCounts(results, n) ==
    IF n = 0 THEN 0
    ELSE Len(results[n].entities) + SumEntityCounts(results, n - 1)

\* C5: an accepted /extract-entities request is answered with one results
\* entry per chunk, in input order, and total_entities is the sum of the
\* entries' entity counts.
C5_OneEntryPerChunkAndTotal ==
    (last.endpoint = "extract-entities" /\ last.status = 200) =>
        LET chunks == last.request.chunks
            results == last.body.results
        IN /\ Len(results) = Len(chunks)
           /\ \A i \in 1..Len(chunks) :
                 /\ results[i].text = First2048(chunks[i])
                 /\ results[i].entities = ChunkEntities(last.outcome.outs[i])
           /\ last.body.total_entities = SumEntityCounts(results, Len(results))

\* C5 witness: two different chunks, both with entities, were answered.
C5_Witness ==
    /\ last.endpoint = "extract-entities"
    /\ last.status = 200
    /\ Len(last.request.chunks) = 2
    /\ last.request.chunks[1] # last.request.chunks[2]
    /\ Len(last.body.results[1].entities) = 2
    /\ Len(last.body.results[2].entities) = 1
    /\ last.body.total_entities = 3

\* C6: an accepted /embed request is answered with count = len(texts) =
\* len(embeddings), the i-th embedding being the model's vector for the i-th
\* text, and every vector as long as the dimension field says.
C6_EmbedShape ==
    (last.endpoint = "embed" /\ last.status = 200) =>
        LET texts == last.request.texts
            body == last.body
        IN /\ body.count = Len(texts)
           /\ Len(body.embeddings) = Len(texts)
           /\ \A i \in 1..Len(texts) :
                 /\ body.embeddings[i] = last.outcome.value[texts[i]]
                 /\ Len(body.embeddings[i]) = body.dimension

\* C6 witness: two different texts with different vectors were embedded.
C6_Witness ==
    /\ last.endpoint = "embed"
    /\ last.status = 200
    /\ last.body.count = 2
    /\ last.body.dimension = 2
    /\ last.request.texts[1] # last.request.texts[2]
    /\ last.body.embeddings[1] # last.body.embeddings[2]

\* C7: an accepted /rerank request is answered with count = len(documents) =
\* len(scores), the i-th score being the model's score of (query, i-th
\* document); a document given twice gets the same score at both positions.
C7_RerankShape ==
    (last.endpoint = "rerank" /\ last.status = 200) =>
        LET query == last.request.query
            documents == last.request.documents
            body == last.body
        IN /\ body.count = Len(documents)
           /\ Len(body.scores) = Len(documents)
           /\ \A i \in 1..Len(documents) :
                 body.scores[i] = last.outcome.value[<<query, documents[i]>>]
           /\ \A i, j \in 1..Len(documents) :
                 documents[i] = documents[j] => body.scores[i] = body.scores[j]

\* C7 witness: documents x, y, x were reranked; y scored differently from x.
C7_Witness ==
    /\ last.endpoint = "rerank"
    /\ last.status = 200
    /\ Len(last.request.documents) = 3
    /\ last.request.documents[1] = last.request.documents[3]
    /\ last.request.documents[1] # last.request.documents[2]
    /\ last.body.scores[1] # last.body.scores[2]
    /\ last.body.scores[1] = last.body.scores[3]

\* the model call of the request handled last raised
ModelRaised ==
    \/ last.endpoint \in {"embed", "rerank"} /\ last.status # 422
                                              /\ last.outcome.raised
    \/ last.endpoint = "extract-entities" /\ last.status # 422
                                           /\ last.outcome.fail # 0

\* the number of model calls made up to and including the one that raised
CallsUntilRaise ==
    IF last.endpoint = "extract-entities" THEN last.outcome.fail ELSE 1

\* C8: when the model call raises, the request fails as a whole (status 500,
\* no results in the body, also when a later chunk fails), the model is not
\* called again for it, and no request changes the model handles of the host.
C8_FailedRequestIsolated ==
    /\ [](ModelRaised =>
            /\ last.status = 500
            /\ last.body = [detail |-> "Internal Server Error"]
            /\ Len(last.wrapper_calls) = 1
            /\ Len(last.model_calls) = CallsUntilRaise)
    /\ [][pc = "serving" => app_state' = app_state]_vars

\* C8 witness: /extract-entities failed on its second chunk, after the first
\* chunk had produced entities.
C8_Witness ==
    /\ last.endpoint = "extract-entities"
    /\ Len(last.request.chunks) = 2
    /\ last.outcome.fail = 2
    /\ ChunkEntities(last.outcome.outs[1]) # <<>>
    /\ last.status = 500

====
